---- MODULE Spec2Model ----
(***************************************************************************)
(* Model of src/src/ricedebias.cpp: the command-line Rician bias           *)
(* correction.  main() validates an optional mask and an optional noise    *)
(* map against the input volume, parses --maxdiff, allocates the output    *)
(* and runs the correction loop over every cell (ii, jj, kk, zz).          *)
(*                                                                         *)
(* Numbers of type double are integers in fixed point, in units of         *)
(* 1/Scale.  The output volume has element type float: a double stored     *)
(* to it is narrowed, which ToFloat models by rounding to the nearest      *)
(* value of the coarser float grid, ties to even.                          *)
(***************************************************************************)
EXTENDS Integers, Sequences, FiniteSets, TLC

VARIABLES
  pc,        \* position in main()
  args,      \* the parsed command line (docopt map)
  input,     \* the input volume (inifti<double, 4>)
  mask,      \* the mask volume (inifti<double, 3>), possibly empty
  rician,    \* the tuple returned by read_rician: [scalar, vol]
  maxdiff,   \* the local maxdiff of main()
  nthreads,  \* the local nthreads of main()
  idx,       \* the loop counters <<ii, jj, kk, zz>>
  allocated, \* TRUE once the output volume has been constructed
  output,    \* the output volume's cells (onifti<float, 4>)
  writes,    \* number of assignments made to each output cell
  visits,    \* number of loop iterations that visited each cell
  by,        \* the threads that processed each cell (MainThread = 0)
  rdargs,    \* the noise arguments ricedebias has been invoked with
  loaded,    \* the options whose file has been opened
  diags,     \* the diagnostics emitted through smt::error
  stdout,    \* what was printed to std::cout
  exit       \* the exit status of the process

vars == <<pc, args, input, mask, rician, maxdiff, nthreads, idx, allocated,
          output, writes, visits, by, rdargs, loaded, diags, stdout, exit>>

----------------------------------------------------------------------------
(* Bounds *)

MaxLen == 2          \* longest --rician option string drawn
MaxThreads == 2      \* largest value smt::threads() returns
FloatStep == 2       \* spacing of the float values in units of the double grid

(* Program constants *)

chunk == 10          \* const std::size_t chunk = 10
MainThread == 0      \* the thread that runs main(); pool workers are 1..nthreads
OutputDefault == 0   \* fill value of a freshly constructed output volume

----------------------------------------------------------------------------
(* Strings are sequences of one-character strings. *)

Alphabet == {"0", "5", ".", "-", "z"}
Digits == {"0", "5"}
NoneStr == <<"n", "o", "n", "e">>

RECURSIVE StringsOfLen(_)
StringsOfLen(n) ==
  IF n = 0 THEN {<<>>}
  ELSE {Append(s, c) : s \in StringsOfLen(n - 1), c \in Alphabet}

Strings == UNION {StringsOfLen(n) : n \in 1..MaxLen}

RicianOpts == {NoneStr} \cup Strings
MaxdiffOpts == {<<"5">>, <<".", "5">>, <<"z">>, <<"5", "z">>}
MaskOpts == {"none", "mask.nii"}

RECURSIVE Pow10(_)
Pow10(n) == IF n = 0 THEN 1 ELSE 10 * Pow10(n - 1)

\* one unit of the fixed-point grid is 1/Scale
Scale == Pow10(MaxLen)

DigitVal(c) == IF c = "5" THEN 5 ELSE 0

----------------------------------------------------------------------------
(* operator>>(std::istream&, double&) on a fresh istringstream: an optional *)
(* sign, then digits with at most one decimal point; extraction stops at    *)
(* the first character that cannot continue the number and succeeds iff at  *)
(* least one digit was read.  (No whitespace and no exponent letter occur   *)
(* in Alphabet.)                                                            *)

HasSign(s) == Len(s) >= 1 /\ s[1] = "-"

RECURSIVE ScanNumber(_, _, _)
\* index of the last character accepted, scanning from position p
ScanNumber(s, p, seenPoint) ==
  IF p > Len(s) THEN p - 1
  ELSE IF s[p] \in Digits THEN ScanNumber(s, p + 1, seenPoint)
  ELSE IF s[p] = "." /\ ~seenPoint THEN ScanNumber(s, p + 1, TRUE)
  ELSE p - 1

Accepted(s) == SubSeq(s, 1, ScanNumber(s, IF HasSign(s) THEN 2 ELSE 1, FALSE))

DigitCount(a) == Cardinality({p \in 1..Len(a) : a[p] \in Digits})

RECURSIVE Mantissa(_)
Mantissa(a) ==
  IF a = <<>> THEN 0
  ELSE IF a[Len(a)] \in Digits
       THEN 10 * Mantissa(SubSeq(a, 1, Len(a) - 1)) + DigitVal(a[Len(a)])
       ELSE Mantissa(SubSeq(a, 1, Len(a) - 1))

\* number of digits after the decimal point
FracDigits(a) ==
  IF \E p \in 1..Len(a) : a[p] = "."
  THEN Len(a) - (CHOOSE p \in 1..Len(a) : a[p] = ".")
  ELSE 0

\* the result of (sin >> x): stream state, characters consumed, value read
ExtractDouble(s) ==
  LET a == Accepted(s)
      ok == DigitCount(a) >= 1 IN
  [ok |-> ok,
   used |-> Len(a),
   value |-> IF ok
             THEN (IF HasSign(s) THEN -1 ELSE 1) * Mantissa(a)
                    * Pow10(MaxLen - FracDigits(a))
             ELSE 0]

----------------------------------------------------------------------------
(* Volumes.  A volume is empty (default-constructed inifti) or carries a    *)
(* size, a voxel size, a coordinate frame and data; pat selects the data.   *)

EmptyVol ==
  [empty |-> TRUE, size |-> <<0, 0, 0>>, pixsize |-> <<0, 0, 0>>,
   coords |-> 0, pat |-> 0]

InputSizes == {<<2, 2, 1, 2>>, <<1, 1, 2, 11>>}
Sizes3 == {<<2, 2, 1>>, <<1, 1, 2>>}
PixSizes == {<<1, 1, 1>>, <<1, 1, 2>>}
CoordFrames == {0, 1}
MaskPats == {0, 1, 2}
NoisePats == {0, 1, 2, 3}

\* the files <input> may name
InputFiles ==
  {[empty |-> FALSE, size |-> s, pixsize |-> <<1, 1, 1>>, coords |-> 0, pat |-> 0] :
     s \in InputSizes}

\* the 3D files --mask or --rician may name
VolumeFiles(pats) ==
  {[empty |-> FALSE, size |-> s, pixsize |-> px, coords |-> c, pat |-> p] :
     s \in Sizes3, px \in PixSizes, c \in CoordFrames, p \in pats}

\* input(ii, jj, kk, zz)
InputData(v, i, j, k, t) == 6 * Scale + 3 * i + 5 * j + 7 * k + 11 * t + v.pat

\* mask(ii, jj, kk): values in {-1, 0, 1}
MaskData(v, i, j, k) == ((i + j + k + v.pat) % 3) - 1

\* std::get<1>(rician)(ii, jj, kk): values in {-1, 0, 1}, or all positive
NoiseData(v, i, j, k) ==
  IF v.pat = 3 THEN Scale * (1 + ((i + j + k) % 2))
  ELSE Scale * (((i + j + k + v.pat) % 3) - 1)

\* inifti::has_equal_spatial_coords
has_equal_spatial_coords(a, b) == a.coords = b.coords

\* smt::ricedebias(signal, noise): a pure function of its two arguments
ricedebias(signal, noise) == IF signal > noise THEN signal - noise ELSE 0

\* storing a double into a cell of onifti<float, 4>: the conversion rounds to
\* the nearest float, ties to the float with the even significand.  The floats
\* are the multiples of FloatStep.
ToFloat(x) ==
  LET q == x \div FloatStep
      r == x % FloatStep IN
    IF 2 * r < FloatStep THEN q * FloatStep
    ELSE IF 2 * r > FloatStep THEN (q + 1) * FloatStep
    ELSE IF q % 2 = 0 THEN q * FloatStep
    ELSE (q + 1) * FloatStep

Cells(v) ==
  {<<i, j, k, t>> : i \in 0..(v.size[1] - 1), j \in 0..(v.size[2] - 1),
                    k \in 0..(v.size[3] - 1), t \in 0..(v.size[4] - 1)}

----------------------------------------------------------------------------
(* The option readers *)

\* read_mask: file is the volume stored under the path the option names
read_mask(a, file) ==
  IF a.mask # "none" THEN file ELSE EmptyVol

\* read_rician: the tuple (scalar, volume)
read_rician(a, file) ==
  IF a.rician # NoneStr
  THEN IF ~ExtractDouble(a.rician).ok
       THEN [scalar |-> 0, vol |-> file]
       ELSE [scalar |-> ExtractDouble(a.rician).value, vol |-> EmptyVol]
  ELSE [scalar |-> 0, vol |-> EmptyVol]

\* TRUE iff read_rician constructs an inifti from the option string
RicianOpensFile(a) == a.rician # NoneStr /\ ~ExtractDouble(a.rician).ok

\* GeometryCheck with the voxel-size check made before the extent check
GeometryCheckPixFirst(in, v) ==
  IF in.pixsize[1] # v.pixsize[1] \/ in.pixsize[2] # v.pixsize[2]
     \/ in.pixsize[3] # v.pixsize[3]
  THEN "pixsize"
  ELSE IF in.size[1] # v.size[1] \/ in.size[2] # v.size[2] \/ in.size[3] # v.size[3]
  THEN "extent"
  ELSE IF ~has_equal_spatial_coords(in, v)
  THEN "coords"
  ELSE "ok"

\* the three geometry checks main() makes on a non-empty volume v, in order;
\* the class of the first one that fails, or "ok"
GeometryCheck(in, v) ==
  IF in.size[1] # v.size[1] \/ in.size[2] # v.size[2] \/ in.size[3] # v.size[3]
  THEN "extent"
  ELSE IF in.pixsize[1] # v.pixsize[1] \/ in.pixsize[2] # v.pixsize[2]
          \/ in.pixsize[3] # v.pixsize[3]
  THEN "pixsize"
  ELSE IF ~has_equal_spatial_coords(in, v)
  THEN "coords"
  ELSE "ok"

\* smt::error(...) for a failed geometry check: the two files and the class
Diagnostic(a, opt, class) == [first |-> "input", second |-> opt, class |-> class]

----------------------------------------------------------------------------
(* The body of the correction loop for the cell (i, j, k, t) *)

\* Foreground with the mask test written >= 0
ForegroundNonNegative(m, i, j, k) == m.empty \/ MaskData(m, i, j, k) >= 0


Foreground(m, i, j, k) == m.empty \/ MaskData(m, i, j, k) > 0

\* Assignments with the noise map ignored: dispatch on the scalar alone
AssignmentsNoMap(in, m, r, i, j, k, t) ==
  IF m.empty \/ MaskData(m, i, j, k) > 0
  THEN IF r.scalar > 0
       THEN <<ToFloat(InputData(in, i, j, k, t)),
              ToFloat(ricedebias(InputData(in, i, j, k, t), r.scalar))>>
       ELSE <<ToFloat(InputData(in, i, j, k, t))>>
  ELSE <<>>

\* Assignments with the pass-through copy made only when nothing corrects
AssignmentsSingleWrite(in, m, r, i, j, k, t) ==
  IF m.empty \/ MaskData(m, i, j, k) > 0
  THEN IF ~r.vol.empty
       THEN <<ToFloat(ricedebias(InputData(in, i, j, k, t), NoiseData(r.vol, i, j, k)))>>
       ELSE IF r.scalar > 0
       THEN <<ToFloat(ricedebias(InputData(in, i, j, k, t), r.scalar))>>
       ELSE <<ToFloat(InputData(in, i, j, k, t))>>
  ELSE <<>>

\* the values assigned to output(ii, jj, kk, zz), in order
Assignments(in, m, r, i, j, k, t) ==
  IF Foreground(m, i, j, k)
  THEN IF ~r.vol.empty
       THEN <<ToFloat(InputData(in, i, j, k, t)),
              ToFloat(ricedebias(InputData(in, i, j, k, t), NoiseData(r.vol, i, j, k)))>>
       ELSE IF r.scalar > 0
       THEN <<ToFloat(InputData(in, i, j, k, t)),
              ToFloat(ricedebias(InputData(in, i, j, k, t), r.scalar))>>
       ELSE <<ToFloat(InputData(in, i, j, k, t))>>
  ELSE <<>>

\* the noise arguments of the calls to ricedebias made for the cell
NoiseArgs(in, m, r, i, j, k, t) ==
  IF Foreground(m, i, j, k)
  THEN IF ~r.vol.empty THEN {NoiseData(r.vol, i, j, k)}
       ELSE IF r.scalar > 0 THEN {r.scalar}
       ELSE {}
  ELSE {}

\* the thread that executes the iteration for series index t
LoopThread(n, t) == MainThread

\* the loop counters after the iteration (ii, jj, kk, zz): ii runs fastest
NextIndex(in, c) ==
  IF c[1] + 1 < in.size[1] THEN <<c[1] + 1, c[2], c[3], c[4]>>
  ELSE IF c[2] + 1 < in.size[2] THEN <<0, c[2] + 1, c[3], c[4]>>
  ELSE IF c[3] + 1 < in.size[3] THEN <<0, 0, c[3] + 1, c[4]>>
  ELSE <<0, 0, 0, c[4] + 1>>

----------------------------------------------------------------------------
(* main() *)

Args ==
  [license : BOOLEAN, mask : MaskOpts, rician : RicianOpts, maxdiff : MaxdiffOpts]

Init ==
  /\ pc = "start"
  /\ args \in Args
  /\ input = EmptyVol
  /\ mask = EmptyVol
  /\ rician = [scalar |-> 0, vol |-> EmptyVol]
  /\ maxdiff = 0
  /\ nthreads = 0
  /\ idx = <<0, 0, 0, 0>>
  /\ allocated = FALSE
  /\ output = <<>>
  /\ writes = <<>>
  /\ visits = <<>>
  /\ by = <<>>
  /\ rdargs = {}
  /\ loaded = {}
  /\ diags = <<>>
  /\ stdout = <<>>
  /\ exit = "running"

\* if (args["--license"].asBool()) { print LICENSE; return EXIT_SUCCESS; }
License ==
  /\ pc = "start"
  /\ IF args.license
     THEN /\ stdout' = Append(stdout, "LICENSE")
          /\ exit' = "success"
          /\ pc' = "done"
     ELSE /\ pc' = "input"
          /\ UNCHANGED <<stdout, exit>>
  /\ UNCHANGED <<args, input, mask, rician, maxdiff, nthreads, idx, allocated,
                 output, writes, visits, by, rdargs, loaded, diags>>

\* const inifti<float_t, 4> input(args["<input>"])
LoadInput ==
  /\ pc = "input"
  /\ \E f \in InputFiles : input' = f
  /\ loaded' = loaded \cup {"input"}
  /\ pc' = "read_mask"
  /\ UNCHANGED <<args, mask, rician, maxdiff, nthreads, idx, allocated, output,
                 writes, visits, by, rdargs, diags, stdout, exit>>

\* const inifti<float_t, 3> mask = read_mask(args)
ReadMask ==
  /\ pc = "read_mask"
  /\ \E f \in VolumeFiles(MaskPats) : mask' = read_mask(args, f)
  /\ loaded' = IF args.mask # "none" THEN loaded \cup {"mask"} ELSE loaded
  /\ pc' = "check_mask"
  /\ UNCHANGED <<args, input, rician, maxdiff, nthreads, idx, allocated, output,
                 writes, visits, by, rdargs, diags, stdout, exit>>

\* CheckMask with the return missing after the diagnostic
CheckMaskNoReturn ==
  /\ pc = "check_mask"
  /\ IF ~mask.empty /\ GeometryCheck(input, mask) # "ok"
     THEN diags' = Append(diags, Diagnostic(args, "mask", GeometryCheck(input, mask)))
     ELSE UNCHANGED diags
  /\ pc' = "read_rician"
  /\ UNCHANGED <<args, input, mask, rician, maxdiff, nthreads, idx, allocated,
                 output, writes, visits, by, rdargs, loaded, stdout, exit>>

\* if (mask) { three checks, each: smt::error(...); return EXIT_FAILURE; }
CheckMask ==
  /\ pc = "check_mask"
  /\ IF ~mask.empty /\ GeometryCheck(input, mask) # "ok"
     THEN /\ diags' = Append(diags, Diagnostic(args, "mask", GeometryCheck(input, mask)))
          /\ exit' = "failure"
          /\ pc' = "done"
     ELSE /\ pc' = "read_rician"
          /\ UNCHANGED <<diags, exit>>
  /\ UNCHANGED <<args, input, mask, rician, maxdiff, nthreads, idx, allocated,
                 output, writes, visits, by, rdargs, loaded, stdout>>

\* const tuple<float_t, inifti<float_t, 3>> rician = read_rician(args)
ReadRician ==
  /\ pc = "read_rician"
  /\ \E f \in VolumeFiles(NoisePats) : rician' = read_rician(args, f)
  /\ loaded' = IF RicianOpensFile(args) THEN loaded \cup {"rician"} ELSE loaded
  /\ pc' = "check_rician"
  /\ UNCHANGED <<args, input, mask, maxdiff, nthreads, idx, allocated, output,
                 writes, visits, by, rdargs, diags, stdout, exit>>

\* if (std::get<1>(rician)) { three checks, each: smt::error(...); return EXIT_FAILURE; }
CheckRician ==
  /\ pc = "check_rician"
  /\ IF ~rician.vol.empty /\ GeometryCheck(input, rician.vol) # "ok"
     THEN /\ diags' = Append(diags, Diagnostic(args, "rician", GeometryCheck(input, rician.vol)))
          /\ exit' = "failure"
          /\ pc' = "done"
     ELSE /\ pc' = "read_maxdiff"
          /\ UNCHANGED <<diags, exit>>
  /\ UNCHANGED <<args, input, mask, rician, maxdiff, nthreads, idx, allocated,
                 output, writes, visits, by, rdargs, loaded, stdout>>

\* ReadMaxdiff called after the output has been constructed
ReadMaxdiffAfterAlloc ==
  /\ pc = "read_maxdiff"
  /\ allocated' = TRUE
  /\ output' = [c \in Cells(input) |-> OutputDefault]
  /\ writes' = [c \in Cells(input) |-> 0]
  /\ IF ~ExtractDouble(args.maxdiff).ok
     THEN /\ diags' = Append(diags, [first |-> "maxdiff", second |-> "maxdiff", class |-> "parse"])
          /\ exit' = "failure"
          /\ pc' = "done"
          /\ UNCHANGED maxdiff
     ELSE /\ maxdiff' = ExtractDouble(args.maxdiff).value
          /\ pc' = "alloc"
          /\ UNCHANGED <<diags, exit>>
  /\ UNCHANGED <<args, input, mask, rician, nthreads, idx, visits, by, rdargs,
                 loaded, stdout>>

\* const float_t maxdiff = read_maxdiff(args): smt::error and std::exit on a
\* failed extraction
ReadMaxdiff ==
  /\ pc = "read_maxdiff"
  /\ IF ~ExtractDouble(args.maxdiff).ok
     THEN /\ diags' = Append(diags, [first |-> "maxdiff", second |-> "maxdiff", class |-> "parse"])
          /\ exit' = "failure"
          /\ pc' = "done"
          /\ UNCHANGED maxdiff
     ELSE /\ maxdiff' = ExtractDouble(args.maxdiff).value
          /\ pc' = "alloc"
          /\ UNCHANGED <<diags, exit>>
  /\ UNCHANGED <<args, input, mask, rician, nthreads, idx, allocated, output,
                 writes, visits, by, rdargs, loaded, stdout>>

\* onifti<float, 4> output(..., input, input.size(0), ..., input.size(3))
AllocOutput ==
  /\ pc = "alloc"
  /\ allocated' = TRUE
  /\ output' = [c \in Cells(input) |-> OutputDefault]
  /\ writes' = [c \in Cells(input) |-> 0]
  /\ visits' = [c \in Cells(input) |-> 0]
  /\ by' = [c \in Cells(input) |-> {}]
  /\ pc' = "threads"
  /\ UNCHANGED <<args, input, mask, rician, maxdiff, nthreads, idx, rdargs,
                 loaded, diags, stdout, exit>>

\* const unsigned int nthreads = smt::threads(); const size_t chunk = 10;
Threads ==
  /\ pc = "threads"
  /\ \E n \in 1..MaxThreads : nthreads' = n
  /\ idx' = <<0, 0, 0, 0>>
  /\ pc' = "loop"
  /\ UNCHANGED <<args, input, mask, rician, maxdiff, allocated, output, writes,
                 visits, by, rdargs, loaded, diags, stdout, exit>>

\* one iteration of the innermost loop body
LoopBody ==
  /\ pc = "loop"
  /\ idx[4] < input.size[4]
  /\ LET a == Assignments(input, mask, rician, idx[1], idx[2], idx[3], idx[4]) IN
       /\ output' = IF a = <<>> THEN output ELSE [output EXCEPT ![idx] = a[Len(a)]]
       /\ writes' = [writes EXCEPT ![idx] = @ + Len(a)]
  /\ visits' = [visits EXCEPT ![idx] = @ + 1]
  /\ by' = [by EXCEPT ![idx] = @ \cup {LoopThread(nthreads, idx[4])}]
  /\ rdargs' = rdargs \cup NoiseArgs(input, mask, rician, idx[1], idx[2], idx[3], idx[4])
  /\ idx' = NextIndex(input, idx)
  /\ UNCHANGED <<pc, args, input, mask, rician, maxdiff, nthreads, allocated,
                 loaded, diags, stdout, exit>>

\* Return with the last, partial chunk dropped when several threads run
ReturnAtChunk ==
  /\ pc = "loop"
  /\ \/ ~(idx[4] < input.size[4])
     \/ nthreads > 1 /\ idx[4] >= chunk * (input.size[4] \div chunk)
  /\ exit' = "success"
  /\ pc' = "done"
  /\ UNCHANGED <<args, input, mask, rician, maxdiff, nthreads, idx, allocated,
                 output, writes, visits, by, rdargs, loaded, diags, stdout>>

\* return EXIT_SUCCESS after the loop
Return ==
  /\ pc = "loop"
  /\ ~(idx[4] < input.size[4])
  /\ exit' = "success"
  /\ pc' = "done"
  /\ UNCHANGED <<args, input, mask, rician, maxdiff, nthreads, idx, allocated,
                 output, writes, visits, by, rdargs, loaded, diags, stdout>>

Next ==
  \/ License
  \/ LoadInput
  \/ ReadMask
  \/ CheckMask
  \/ ReadRician
  \/ CheckRician
  \/ ReadMaxdiff
  \/ AllocOutput
  \/ Threads
  \/ LoopBody
  \/ Return

Spec == Init /\ [][Next]_vars

\* main() is a sequential program: it takes its next step whenever it has one
FairSpec == Spec /\ WF_vars(Next)

----------------------------------------------------------------------------
(* Vocabulary of the properties, stated without the operators of main() *)

\* the mask value at the cell's voxel is strictly positive, or there is no mask
IsForegroundCell(c) == mask.empty \/ MaskData(mask, c[1], c[2], c[3]) >= 1

InputAt(c) == InputData(input, c[1], c[2], c[3], c[4])

\* the double the resolved noise specification assigns to cell c
ResolvedValue(c) ==
  CASE ~rician.vol.empty ->
         ricedebias(InputAt(c), NoiseData(rician.vol, c[1], c[2], c[3]))
    [] rician.vol.empty /\ rician.scalar > 0 -> ricedebias(InputAt(c), rician.scalar)
    [] OTHER -> InputAt(c)

\* the noise specification corrects (SpatialMap, or Scalar v > 0)
Corrects == ~rician.vol.empty \/ rician.scalar > 0

\* the whole string s is a decimal number: [-] digits [. digits] with a digit
IsNumber(s) ==
  LET b == IF Len(s) >= 1 /\ s[1] = "-" THEN Tail(s) ELSE s IN
    /\ \A p \in 1..Len(b) : b[p] \in Digits \cup {"."}
    /\ Cardinality({p \in 1..Len(b) : b[p] = "."}) <= 1
    /\ \E p \in 1..Len(b) : b[p] \in Digits

\* some non-empty prefix of s is a decimal number
HasNumberPrefix(s) == \E n \in 1..Len(s) : IsNumber(SubSeq(s, 1, n))

SameExtent(a, b) == \A d \in 1..3 : a.size[d] = b.size[d]
SamePixsize(a, b) == \A d \in 1..3 : a.pixsize[d] = b.pixsize[d]
SameFrame(a, b) == a.coords = b.coords
Compatible(a, b) == SameExtent(a, b) /\ SamePixsize(a, b) /\ SameFrame(a, b)

\* read_rician has returned
RicianResolved ==
  pc \in {"check_rician", "read_maxdiff", "alloc", "threads", "loop"}
    \/ (pc = "done" /\ ~args.license
          /\ ~(exit = "failure" /\ diags[1].second = "mask"))

----------------------------------------------------------------------------
(* C1 as stated: after a successful run every foreground cell of the output *)
(* equals the value of the resolved noise specification exactly:            *)
(* ricedebias(input, noiseMap) with a SpatialMap, ricedebias(input, v) with *)
(* a Scalar v > 0, the raw input otherwise.                                 *)
C1_ExactValue ==
  (exit = "success" /\ allocated) =>
    \A c \in DOMAIN output : IsForegroundCell(c) => output[c] = ResolvedValue(c)

(* C1 amended: after a successful run every foreground cell of the output   *)
(* equals the value of the resolved noise specification narrowed to the     *)
(* output's element type float.                                             *)
C1_NarrowedValue ==
  (exit = "success" /\ allocated) =>
    \A c \in DOMAIN output :
      IsForegroundCell(c) => output[c] = ToFloat(ResolvedValue(c))

C1_Witness ==
  /\ exit = "success" /\ allocated
  /\ ~mask.empty /\ ~rician.vol.empty
  /\ \E c \in DOMAIN output :
       IsForegroundCell(c) /\ writes[c] > 0 /\ ResolvedValue(c) # InputAt(c)

(* C2: with a mask present, a cell whose mask value is <= 0 is never        *)
(* written by the correction loop, whatever the noise specification: it     *)
(* holds the value it was allocated with, in every state of the run.        *)
C2_BackgroundUntouched ==
  (allocated /\ ~mask.empty) =>
    \A c \in DOMAIN output :
      MaskData(mask, c[1], c[2], c[3]) <= 0 =>
        writes[c] = 0 /\ output[c] = OutputDefault

C2_Witness ==
  /\ exit = "success" /\ allocated /\ ~mask.empty /\ Corrects
  /\ \E c \in DOMAIN output :
       MaskData(mask, c[1], c[2], c[3]) <= 0 /\ visits[c] = 1
         /\ ToFloat(InputAt(c)) # OutputDefault
  /\ \E c \in DOMAIN output : writes[c] > 0

(* C3: in a run that ends with a failure exit the output volume has never   *)
(* been allocated and no output cell has been written; once the output is   *)
(* allocated every validation step, the --maxdiff parse included, is over   *)
(* and has emitted no diagnostic.                                           *)
C3_FailBeforeOutput ==
  /\ exit = "failure" => (~allocated /\ output = <<>> /\ writes = <<>>)
  /\ allocated => (pc \in {"threads", "loop", "done"} /\ diags = <<>>
                     /\ HasNumberPrefix(args.maxdiff))

C3_Witness ==
  /\ exit = "failure"
  /\ diags[1].class = "parse"
  /\ ~mask.empty /\ ~rician.vol.empty

(* C4 as stated: for a --rician value that is not "none", the resolver      *)
(* yields Scalar(value) without loading a file iff the whole string is a    *)
(* number, and loads the string as a path otherwise.                        *)
C4_ScalarIffWholeNumber ==
  (RicianResolved /\ args.rician # NoneStr) =>
    /\ IsNumber(args.rician) <=> (rician.vol.empty /\ "rician" \notin loaded)
    /\ ~IsNumber(args.rician) <=> (~rician.vol.empty /\ "rician" \in loaded)

(* C5 as stated: ricedebias is never invoked with a noise argument <= 0,    *)
(* in Scalar mode and in SpatialMap mode.                                   *)
C5_NoiseArgPositive == \A n \in rdargs : n > 0

(* C6 as stated: no output cell is assigned more than once.                 *)
C6_AssignedAtMostOnce ==
  allocated => \A c \in DOMAIN writes : writes[c] <= 1

(* C6 amended: every cell is visited at most once; a visited foreground     *)
(* cell has been assigned once (the pass-through value) when the noise      *)
(* specification does not correct and twice (pass-through, then the         *)
(* corrected value) when it is a SpatialMap or a Scalar v > 0; a background *)
(* cell and a cell not yet visited have never been assigned.                *)
C6_AssignmentCounts ==
  allocated =>
    \A c \in DOMAIN writes :
      /\ visits[c] <= 1
      /\ writes[c] =
           IF visits[c] = 1 /\ IsForegroundCell(c)
           THEN (IF Corrects THEN 2 ELSE 1)
           ELSE 0
      /\ (exit = "success" => visits[c] = 1)

C6_Witness ==
  /\ exit = "success" /\ allocated
  /\ \E c \in DOMAIN writes : writes[c] = 2
  /\ \E c \in DOMAIN writes : writes[c] = 0

(* C7 as stated: the series axis is cut into chunks of 10 indices that are  *)
(* handed to the worker threads 1..nthreads: every processed cell has been  *)
(* processed by exactly one worker, and the cells of one chunk by the same  *)
(* worker.                                                                  *)
C7_ChunksOnWorkers ==
  (allocated /\ pc \in {"loop", "done"}) =>
    /\ \A c \in DOMAIN by :
         visits[c] > 0 => (Cardinality(by[c]) = 1 /\ by[c] \subseteq 1..nthreads)
    /\ \A c, d \in DOMAIN by :
         (visits[c] > 0 /\ visits[d] > 0 /\ c[4] \div chunk = d[4] \div chunk)
           => by[c] = by[d]

(* C8: the final output is a function of the input, the mask and the noise  *)
(* specification alone: for every number of threads the run ends with the   *)
(* same value in every output cell.                                         *)
C8_ThreadIndependent ==
  (exit = "success" /\ allocated) =>
    output = [c \in Cells(input) |->
                IF IsForegroundCell(c) THEN ToFloat(ResolvedValue(c))
                ELSE OutputDefault]

C8_Witness ==
  /\ exit = "success" /\ allocated
  /\ nthreads > 1
  /\ input.size[4] > chunk
  /\ \E c \in DOMAIN output : c[4] >= chunk /\ writes[c] > 0

\* the validations of main() that the run's inputs fail
MaskFails == ~mask.empty /\ ~Compatible(input, mask)
NoiseMapFails == ~rician.vol.empty /\ ~Compatible(input, rician.vol)
MaxdiffFails == ~HasNumberPrefix(args.maxdiff)

C9_ExitStatus ==
  /\ exit \in {"running", "success", "failure"}
  /\ (exit = "running") <=> (pc # "done")
  /\ exit = "success" =>
       /\ diags = <<>>
       /\ \/ args.license /\ loaded = {} /\ ~allocated
          \/ /\ ~args.license /\ allocated
             /\ \A c \in Cells(input) : visits[c] = 1
             /\ ~MaskFails /\ ~NoiseMapFails /\ ~MaxdiffFails
  /\ exit = "failure" =>
       /\ Len(diags) = 1
       /\ ~args.license
       /\ MaskFails \/ NoiseMapFails \/ MaxdiffFails

(* C9: every run terminates with exactly one exit status, which never       *)
(* changes once set: success with --license (no volume read) or when every  *)
(* validation passes and the loop has visited every cell of the input grid; *)
(* failure, with exactly one diagnostic, when and only when a geometry      *)
(* check of the mask or of the noise map fails or --maxdiff does not parse. *)
C9_TerminatesWithOneStatus ==
  /\ []C9_ExitStatus
  /\ [][exit # "running" => exit' = exit]_vars
  /\ <>(exit # "running")

C9_Witness ==
  /\ exit = "failure"
  /\ Len(diags) = 1
  /\ diags[1].second = "rician"
  /\ ~mask.empty

(* C10: validation stops at the first failure, in a fixed order.  The mask  *)
(* is checked before the noise specification is resolved or its file        *)
(* opened; within a volume extent comes before voxel size and voxel size    *)
(* before coordinate frame; the diagnostic names the input, the first       *)
(* volume that fails and its first mismatch class.                          *)
C10_ValidationOrder ==
  /\ pc \in {"start", "input", "read_mask", "check_mask"} =>
       ("rician" \notin loaded /\ rician.vol.empty)
  /\ exit = "failure" =>
       LET d == diags[1]
           v == IF d.second = "mask" THEN mask ELSE rician.vol IN
         /\ d.second = "mask" =>
              (MaskFails /\ "rician" \notin loaded /\ rician.vol.empty)
         /\ d.second = "rician" => (~MaskFails /\ NoiseMapFails)
         /\ d.second = "maxdiff" => (~MaskFails /\ ~NoiseMapFails)
         /\ d.second \in {"mask", "rician"} =>
              /\ d.first = "input"
              /\ d.class = "extent" <=> ~SameExtent(input, v)
              /\ d.class = "pixsize" <=> (SameExtent(input, v) /\ ~SamePixsize(input, v))
              /\ d.class = "coords" <=>
                   (SameExtent(input, v) /\ SamePixsize(input, v) /\ ~SameFrame(input, v))

C10_Witness ==
  /\ exit = "failure"
  /\ diags[1].second = "mask"
  /\ diags[1].class = "extent"
  /\ ~SamePixsize(input, mask) /\ ~SameFrame(input, mask)
  /\ ~HasNumberPrefix(args.rician) /\ args.rician # NoneStr

====
